---- MODULE Spec2Model ----
(***************************************************************************)
(* The report store of the PlagiaGuard client (ReportContext.jsx), the     *)
(* reports page that drives it (PlagiarismReports.jsx) and the toast       *)
(* provider it notifies through (ToastContext.jsx), as a state machine.    *)
(*                                                                         *)
(* One step is one run of JavaScript to completion followed by the render  *)
(* React 18 commits for it (createRoot, main.jsx:8: the state setters      *)
(* called in one run are batched into one render): a user event handler,   *)
(* or the continuation of an async function after an awaited request       *)
(* settled.  The list requests in flight are the sequence `calls`, oldest  *)
(* first, the other requests the bag `others`; any of them may settle      *)
(* next.                                                                   *)
(*                                                                         *)
(* useEffect: a committed render leaves an effect to run when one of its   *)
(* dependencies changed.  React runs the effects left by a render before   *)
(* it handles anything else, so while one is left (EffectsDue) the only    *)
(* step is FlushEffects.  A click is a discrete event: React 18 runs the   *)
(* effects of its render before the handler's step ends, so the steps of   *)
(* user events include their effects.                                      *)
(*                                                                         *)
(* The store's operations are those of the context value                   *)
(* (ReportContext.jsx:243-259); any consumer below the provider may call   *)
(* them, so they are enabled whether or not the reports page is mounted.   *)
(* `mounted` decides only whether the page's own effect                    *)
(* (PlagiarismReports.jsx:22-24) runs beside the provider's.               *)
(***************************************************************************)
EXTENDS Integers, Sequences, FiniteSets, Bags, TLC

VARIABLES
    token,       \* AuthContext: TRUE when a bearer token is held
    reports,     \* ReportContext.jsx:9    the stored list (report ids)
    loading,     \* ReportContext.jsx:10
    error,       \* ReportContext.jsx:11   NoError or a message
    pagination,  \* ReportContext.jsx:12   [page, perPage, total, pages]
    toast,       \* ToastContext.jsx:7     NoToast or [message, type]
    mounted,     \* the reports page (PlagiarismReports) is on screen
    calls,       \* list requests in flight, in the order they were sent
    others,      \* the other requests in flight (a bag)
    db,          \* the backend's reports (ids)
    nextId,      \* the id the backend gives the next report it creates
    provDue,     \* the effect of ReportContext.jsx:54 is left to run
    pageDue,     \* the effect of PlagiarismReports.jsx:22 is left to run
    ev,          \* the step just taken (history variable)
    availableSources, \* ReportContext.jsx:18
    connectedToDrive, \* AuthContext: the account is linked to the drive
    documents,   \* DocumentContext.jsx:9     the stored documents (ids)
    docLoading,  \* DocumentContext.jsx:10
    docError,    \* DocumentContext.jsx:11    NoError or a message
    drive,       \* the backend's documents (ids)
    docCalls,    \* GET /document/list requests in flight: who awaits each
    up,          \* the running call of uploadMultipleDocuments
    filterType,  \* PlagiarismReports.jsx:14
    filterMethod, \* PlagiarismReports.jsx:15
    sortBy,      \* PlagiarismReports.jsx:16
    sortOrder,   \* PlagiarismReports.jsx:17
    searchTerm,  \* PlagiarismReports.jsx:18   a sequence of characters
    deleteTarget, \* PlagiarismReports.jsx:19  the report of the modal, or NoSuchId
    deleteLoading, \* PlagiarismReports.jsx:20
    view,        \* the other page on screen: "none", "compare" or "check"
    docsLoading, \* CompareDocuments.jsx:16
    selectedSources, \* GeneralPlagiarismCheck.jsx:17
    loadingSources \* GeneralPlagiarismCheck.jsx:23

\* The state of the document store (DocumentContext.jsx).
docVars == <<connectedToDrive, documents, docLoading, docError, drive, docCalls, up>>

\* FilterState, the state of the delete modal, and the state of the compare
\* page and of the general check page.
filterVars == <<filterType, filterMethod, sortBy, sortOrder, searchTerm>>

deleteVars == <<deleteTarget, deleteLoading>>

checkVars == <<selectedSources, loadingSources>>

pageVars == <<filterVars, deleteVars, view, docsLoading, checkVars>>

vars == <<token, reports, loading, error, pagination, toast, mounted, calls,
          others, db, nextId, provDue, pageDue, ev, availableSources, docVars,
          pageVars>>

(***************************************************************************)
(* Bounds of the model and constants of the program.                       *)
(***************************************************************************)
MaxCalls == 2
InitReports == 9
MaxReports == 10
MaxDeleted == 2
MaxFiles == 3
PerPageInit == 8

NoError == "null"
FetchErrorMsg == "Failed to load your reports. Please try again."
NoSuchId == 0
EmptyId == -1
UndefinedId == -2

NoToast == [message |-> "none", type |-> "none"]
Toast(m, t) == [message |-> m, type |-> t]

InitPagination == [page |-> 1, perPage |-> PerPageInit, total |-> 0, pages |-> 0]


(***************************************************************************)
(* The backend (external collaborator): GET /report/list answers with the  *)
(* requested page of its reports and the totals.                           *)
(***************************************************************************)
Min(a, b) == IF a < b THEN a ELSE b
Max(a, b) == IF a > b THEN a ELSE b

RECURSIVE SortedSeq(_)
SortedSeq(S) ==
    IF S = {} THEN <<>>
    ELSE LET m == CHOOSE x \in S : \A y \in S : x <= y
         IN <<m>> \o SortedSeq(S \ {m})

CeilDiv(n, k) == (n + k - 1) \div k

ListResponse(d, page, perPage) ==
    LET all == SortedSeq(d)
        n == Len(all)
    IN [reports  |-> SubSeq(all, (page - 1) * perPage + 1, Min(n, page * perPage)),
        page     |-> page,
        per_page |-> perPage,
        total    |-> n,
        pages    |-> CeilDiv(n, perPage)]

(***************************************************************************)
(* Requests in flight.                                                     *)
(***************************************************************************)
Call(kind, origin, pag, sl, id) ==
    [kind |-> kind, origin |-> origin, page |-> pag.page, perPage |-> pag.perPage,
     showLoading |-> sl, id |-> id]

\* The step taken, when it wrote to the store or continued an async call
\* ("other" for the rest), and what the promise that resolved in it, if
\* any, resolved to.
Ev(t, r) == [type |-> t, ret |-> r]

Remove(s, i) == SubSeq(s, 1, i - 1) \o SubSeq(s, i + 1, Len(s))

Sent(c) == SetToBag({c})

\* A variant of fetchReports whose closure keeps the first page.
fetchReportsFirstPage(tok, pag, origin, sl) ==
    IF ~tok THEN <<>> ELSE <<Call("list", origin, [pag EXCEPT !.page = 1], sl, NoSuchId)>>

\* fetchReports(showLoading), ReportContext.jsx:23-32, up to the request it
\* sends: the calls it adds to cs.  The page asked for is the one of the
\* render that created the callback.
fetchReports(tok, pag, origin, sl) ==
    IF ~tok THEN <<>> ELSE <<Call("list", origin, pag, sl, NoSuchId)>>

\* The effects a render leaves, run in React's order (the page's effect, a
\* child, before the provider's): PlagiarismReports.jsx:22-24 calls
\* fetchReports(); ReportContext.jsx:54-58 calls it when a token is held.
RunEffects(tok, pag, pDue, gDue) ==
    (IF gDue THEN fetchReports(tok, pag, "effect", TRUE) ELSE <<>>)
    \o (IF pDue /\ tok THEN fetchReports(tok, pag, "effect", TRUE) ELSE <<>>)

EffectsDue == provDue \/ pageDue

Room(n) == Len(calls) + BagCardinality(others) + n <= MaxCalls

\* No call of uploadMultipleDocuments is running.
UpIdle == [pc |-> "idle", files |-> <<>>, i |-> 0, uploadedFiles |-> <<>>,
           failed |-> 0, ret |-> <<>>]

\* The absent search term and the characters typed into the search box.
NoTerm == <<>>

\* useState's initial values of the pages: FilterState and the modal
\* (PlagiarismReports.jsx:14-20), CompareDocuments.jsx:16,
\* GeneralPlagiarismCheck.jsx:17-23.  No page but the reports page, whose
\* flag is `mounted`, is on screen.
PagesInit ==
    /\ filterType = "all"
    /\ filterMethod = "all"
    /\ sortBy = "date"
    /\ sortOrder = "desc"
    /\ searchTerm = NoTerm
    /\ deleteTarget = NoSuchId
    /\ deleteLoading = FALSE
    /\ view = "none"
    /\ docsLoading = TRUE
    /\ selectedSources = <<"user_documents", "web">>
    /\ loadingSources = TRUE

(***************************************************************************)
(* Initial state: the providers are mounted, nothing has been fetched.     *)
(* The provider's effect runs after the first render.                      *)
(***************************************************************************)
Init ==
    /\ token \in BOOLEAN
    /\ reports = <<>>
    /\ loading = FALSE
    /\ error = NoError
    /\ pagination = InitPagination
    /\ toast = NoToast
    /\ mounted = FALSE
    /\ calls = <<>>
    /\ others = EmptyBag
    /\ db \in {{}, 1..InitReports}
    /\ nextId = InitReports + 1
    /\ provDue = TRUE
    /\ pageDue = FALSE
    /\ ev = Ev("init", "none")
    /\ availableSources = <<>>
    /\ connectedToDrive = FALSE
    /\ documents = <<>>
    /\ docLoading = FALSE
    /\ docError = NoError
    /\ drive = {}
    /\ docCalls = <<>>
    /\ up = UpIdle
    /\ PagesInit

\* The state a step of a user event ends in, its effects run: the new calls
\* are those of RunEffects; each fetchReports call sets loading and clears
\* error (ReportContext.jsx:26-29).
Commit(tok, pag, pDue, gDue, cs, ld, er) ==
    LET new == RunEffects(tok, pag, pDue, gDue)
    IN /\ calls' = cs \o new
       /\ loading' = (IF new # <<>> THEN TRUE ELSE ld)
       /\ error' = (IF new # <<>> THEN NoError ELSE er)
       /\ provDue' = FALSE
       /\ pageDue' = FALSE

\* The effects left by the render of an async continuation.
FlushEffects ==
    /\ EffectsDue
    /\ Room(Len(RunEffects(token, pagination, provDue, pageDue)))
    /\ Commit(token, pagination, provDue, pageDue, calls, loading, error)
    /\ ev' = Ev("other", "none")
    /\ UNCHANGED <<pageVars, docVars, availableSources, token, reports, pagination, toast, mounted, others, db, nextId>>

(***************************************************************************)
(* The reports page and the session.                                       *)
(***************************************************************************)
\* Navigating to /dashboard/reports (behind ProtectedRoute, App.jsx:19-24):
\* the page's effect runs on mount (PlagiarismReports.jsx:22-24).
Mount ==
    /\ ~EffectsDue /\ token /\ ~mounted /\ Room(1)
    /\ mounted' = TRUE
    /\ Commit(token, pagination, FALSE, TRUE, calls, loading, error)
    /\ ev' = Ev("other", "none")
    /\ UNCHANGED <<pageVars, docVars, availableSources, token, reports, pagination, toast, others, db, nextId>>

Unmount ==
    /\ ~EffectsDue /\ mounted
    /\ mounted' = FALSE
    /\ ev' = Ev("other", "none")
    /\ UNCHANGED <<pageVars, docVars, availableSources, token, reports, loading, error, pagination, toast, calls, others,
                   db, nextId, provDue, pageDue>>

\* A new token changes fetchReports (ReportContext.jsx:52) and the
\* provider's effect runs (ReportContext.jsx:54-58).
Login ==
    /\ ~EffectsDue /\ ~token /\ Room(1)
    /\ token' = TRUE
    /\ Commit(TRUE, pagination, TRUE, FALSE, calls, loading, error)
    /\ ev' = Ev("other", "none")
    /\ UNCHANGED <<pageVars, docVars, availableSources, reports, pagination, toast, mounted, others, db, nextId>>

(***************************************************************************)
(* Toasts.  showToast is a new function in every render of ToastProvider   *)
(* (ToastContext.jsx:10-12) and it is a dependency of fetchReports         *)
(* (ReportContext.jsx:52): every change of the toast re-creates            *)
(* fetchReports, and the provider's effect (ReportContext.jsx:54-58),      *)
(* which depends on it, runs again.                                        *)
(***************************************************************************)
showToast(m, t) == Toast(m, t)

\* hideToast, ToastContext.jsx:28-31: the close button, or the timer of
\* the Toast component.
HideToast ==
    /\ ~EffectsDue /\ toast # NoToast /\ Room(1)
    /\ toast' = NoToast
    /\ Commit(token, pagination, TRUE, FALSE, calls, loading, error)
    /\ ev' = Ev("other", "none")
    /\ UNCHANGED <<pageVars, docVars, availableSources, token, reports, pagination, mounted, others, db, nextId>>

(***************************************************************************)
(* changePage, ReportContext.jsx:159-163.                                  *)
(***************************************************************************)
\* A variant of changePage without the upper bound.
changePageNoUpperBound(pag, newPage) ==
    IF newPage > 0
    THEN [pag EXCEPT !.page = newPage]
    ELSE pag

changePage(pag, newPage) ==
    IF newPage > 0 /\ newPage <= pag.pages
    THEN [pag EXCEPT !.page = newPage]
    ELSE pag

PageInputs == (-1)..(pagination.pages + 1)

\* A call of changePage, its render and the effects it leaves: the page is
\* a dependency of fetchReports (ReportContext.jsx:52), so of the
\* provider's effect, and of the page's effect (PlagiarismReports.jsx:24).
ChangePage(newPage) ==
    /\ ~EffectsDue
    /\ LET pag == changePage(pagination, newPage)
           changed == pag.page # pagination.page
       IN /\ Room(Len(RunEffects(token, pag, changed, changed /\ mounted)))
          /\ pagination' = pag
          /\ Commit(token, pag, changed, changed /\ mounted, calls, loading, error)
    /\ ev' = Ev(IF newPage > 0 /\ newPage <= pagination.pages THEN "changePage" ELSE "other",
                "none")
    /\ UNCHANGED <<pageVars, docVars, availableSources, token, reports, toast, mounted, others, db, nextId>>

(***************************************************************************)
(* fetchReports after its request settled, ReportContext.jsx:32-51.        *)
(***************************************************************************)
\* Variants of fetchReportsOk: one that forgets setPagination, one that drops
\* the response of a request for another page than the current one.
fetchReportsOkListOnly(rep, pag, resp) ==
    [reports |-> resp.reports, pagination |-> pag]

fetchReportsOkLatestOnly(rep, pag, resp) ==
    IF resp.page = pag.page
    THEN [reports    |-> resp.reports,
          pagination |-> [page |-> resp.page, perPage |-> resp.per_page,
                          total |-> resp.total, pages |-> resp.pages]]
    ELSE [reports |-> rep, pagination |-> pag]

\* A variant of fetchReportsOk that adds the response to the stored list.
fetchReportsOkAppends(rep, pag, resp) ==
    [reports    |-> rep \o resp.reports,
     pagination |-> [page |-> resp.page, perPage |-> resp.per_page,
                     total |-> resp.total, pages |-> resp.pages]]

\* The try branch, ReportContext.jsx:34-40: the list and the whole
\* PageState are taken from the response.
fetchReportsOk(rep, pag, resp) ==
    [reports    |-> resp.reports,
     pagination |-> [page |-> resp.page, perPage |-> resp.per_page,
                     total |-> resp.total, pages |-> resp.pages]]

\* A variant of fetchReportsFailed that empties the list.
fetchReportsFailedClears(rep, pag, sl, tst) ==
    [reports    |-> <<>>,
     pagination |-> pag,
     error      |-> FetchErrorMsg,
     toast      |-> IF sl THEN showToast("Failed to load your plagiarism reports", "error")
                    ELSE tst]

\* The catch branch, ReportContext.jsx:41-46.
fetchReportsFailed(rep, pag, sl, tst) ==
    [reports    |-> rep,
     pagination |-> pag,
     error      |-> FetchErrorMsg,
     toast      |-> IF sl THEN showToast("Failed to load your plagiarism reports", "error")
                    ELSE tst]

\* What the caller awaiting fetchReports() then resolves to: deleteReport
\* returns true (ReportContext.jsx:133-134), compareDocuments returns the
\* response of its POST (ReportContext.jsx:101-102).
AwaiterReturns(c) ==
    CASE c.origin = "delete"  -> "true"
      [] c.origin = "compare" -> "data"
      [] OTHER                -> "none"

\* loading after fetchReports' finally (ReportContext.jsx:47-51) and, when
\* compareDocuments awaited it, after that one's (ReportContext.jsx:121-123).
LoadingAfterFetch(c, ld) ==
    IF c.showLoading \/ c.origin = "compare" THEN FALSE ELSE ld

FetchOk(i) ==
    /\ ~EffectsDue
    /\ LET c == calls[i]
           new == fetchReportsOk(reports, pagination, ListResponse(db, c.page, c.perPage))
           moved == new.pagination.page # pagination.page
       IN /\ reports' = new.reports
          /\ pagination' = new.pagination
          /\ loading' = LoadingAfterFetch(c, loading)
          /\ provDue' = (moved \/ new.pagination.perPage # pagination.perPage)
          /\ pageDue' = (moved /\ mounted)
          /\ ev' = Ev("fetchOk", AwaiterReturns(c))
    /\ calls' = Remove(calls, i)
    /\ UNCHANGED <<pageVars, docVars, availableSources, token, error, toast, mounted, others, db, nextId>>

\* A variant of FetchFail for a showToast that keeps its identity: the toast
\* does not make the provider's effect run.
FetchFailMemoised(i) ==
    /\ ~EffectsDue
    /\ LET c == calls[i]
           new == fetchReportsFailed(reports, pagination, c.showLoading, toast)
       IN /\ reports' = new.reports
          /\ pagination' = new.pagination
          /\ error' = new.error
          /\ toast' = new.toast
          /\ loading' = LoadingAfterFetch(c, loading)
          /\ provDue' = FALSE
          /\ ev' = Ev("fetchFail", AwaiterReturns(c))
    /\ calls' = Remove(calls, i)
    /\ UNCHANGED <<pageVars, docVars, availableSources, token, mounted, others, db, nextId, pageDue>>

FetchFail(i) ==
    /\ ~EffectsDue
    /\ LET c == calls[i]
           new == fetchReportsFailed(reports, pagination, c.showLoading, toast)
       IN /\ reports' = new.reports
          /\ pagination' = new.pagination
          /\ error' = new.error
          /\ toast' = new.toast
          /\ loading' = LoadingAfterFetch(c, loading)
          /\ provDue' = c.showLoading
          /\ ev' = Ev("fetchFail", AwaiterReturns(c))
    /\ calls' = Remove(calls, i)
    /\ UNCHANGED <<pageVars, docVars, availableSources, token, mounted, others, db, nextId, pageDue>>

(***************************************************************************)
(* deleteReport, ReportContext.jsx:126-140.                                *)
(***************************************************************************)
\* The report the page offers to delete (the last card of the stored list),
\* and an id the backend does not know.
DeleteTargets ==
    {NoSuchId} \cup (IF reports = <<>> THEN {} ELSE {reports[Len(reports)]})

\* The DELETE requests in flight for reports of the stored list.
DeletesSent ==
    BagCardinality([c \in {x \in BagToSet(others) : x.kind = "delete" /\ x.id # NoSuchId}
                    |-> others[c]])

DeleteReport(id) ==
    /\ ~EffectsDue
    /\ IF ~token
       THEN /\ ev' = Ev("other", "false")
            /\ UNCHANGED others
       ELSE /\ Room(1)
            /\ id \in db => Cardinality(db) - DeletesSent > InitReports - MaxDeleted
            /\ others' = others (+) Sent(Call("delete", "deleteReport", pagination, FALSE, id))
            /\ ev' = Ev("other", "none")
    /\ UNCHANGED <<pageVars, docVars, availableSources, token, reports, loading, error, pagination, toast, mounted,
                   calls, db, nextId, provDue, pageDue>>

\* Variants of deleteReportSettled: one that refreshes after a failure too,
\* one that removes the report from the stored list itself.
deleteReportSettledAlwaysRefresh(acked, c, rep, er) ==
    [toast   |-> IF acked THEN showToast("Report deleted successfully", "success")
                 ELSE showToast("Failed to delete report", "error"),
     refresh |-> fetchReports(TRUE, c, "delete", TRUE),
     ret     |-> IF acked THEN "none" ELSE "false",
     reports |-> rep,
     error   |-> er]

deleteReportSettledOptimistic(acked, c, rep, er) ==
    [toast   |-> IF acked THEN showToast("Report deleted successfully", "success")
                 ELSE showToast("Failed to delete report", "error"),
     refresh |-> IF acked THEN fetchReports(TRUE, c, "delete", TRUE) ELSE <<>>,
     ret     |-> IF acked THEN "none" ELSE "false",
     reports |-> IF acked THEN SelectSeq(rep, LAMBDA r : r # c.id) ELSE rep,
     error   |-> er]

\* After `await api.delete` (ReportContext.jsx:130): acknowledged, the
\* success toast and the refresh it awaits (lines 132-133); failed, the
\* error toast and false (lines 135-138).
\* It never calls setReports, setError or setLoading itself.
deleteReportSettled(acked, c, rep, er) ==
    IF acked
    THEN [toast   |-> showToast("Report deleted successfully", "success"),
          refresh |-> fetchReports(TRUE, c, "delete", TRUE),
          ret     |-> "none",
          reports |-> rep,
          error   |-> er]
    ELSE [toast   |-> showToast("Failed to delete report", "error"),
          refresh |-> <<>>,
          ret     |-> "false",
          reports |-> rep,
          error   |-> er]

\* The backend acknowledges the DELETE of a report it has; the request
\* fails for a report it does not have, or on the way.
DeleteSettles(c, acked) ==
    /\ ~EffectsDue
    /\ c.kind = "delete"
    /\ acked => c.id \in db
    /\ LET k == deleteReportSettled(acked, c, reports, error)
       IN /\ db' = (IF acked THEN db \ {c.id} ELSE db)
          /\ toast' = k.toast
          /\ reports' = k.reports
          /\ others' = others (-) Sent(c)
          /\ calls' = calls \o k.refresh
          /\ loading' = (IF k.refresh # <<>> THEN TRUE ELSE loading)
          /\ error' = (IF k.refresh # <<>> THEN NoError ELSE k.error)
          /\ ev' = Ev(IF acked THEN "deleteOk" ELSE "deleteFail", k.ret)
    /\ provDue' = TRUE
    /\ UNCHANGED <<pageVars, docVars, availableSources, token, pagination, mounted, nextId, pageDue>>

(***************************************************************************)
(* getReport, ReportContext.jsx:60-81.                                     *)
(***************************************************************************)
\* `!reportId || reportId === 'undefined'`, ReportContext.jsx:64.
InvalidReportId(id) == id = EmptyId \/ id = UndefinedId

ReportIdInputs == {EmptyId, UndefinedId, NoSuchId, 1}

GetReport(id) ==
    /\ ~EffectsDue
    /\ IF ~token
       THEN /\ ev' = Ev("other", "null")
            /\ UNCHANGED <<others, loading, toast, provDue>>
       ELSE IF InvalidReportId(id)
       THEN /\ Room(1)
            /\ toast' = showToast("Invalid report ID", "error")
            /\ provDue' = TRUE
            /\ ev' = Ev("invalid", "null")
            /\ UNCHANGED <<others, loading>>
       ELSE /\ Room(1)
            /\ loading' = TRUE
            /\ others' = others (+) Sent(Call("get", "getReport", InitPagination, TRUE, id))
            /\ ev' = Ev("other", "none")
            /\ UNCHANGED <<toast, provDue>>
    /\ UNCHANGED <<pageVars, docVars, availableSources, token, reports, error, pagination, mounted, calls, db, nextId, pageDue>>

\* After `await api.get` (ReportContext.jsx:72-80).
getReportSettled(ok, tst) ==
    IF ok
    THEN [toast |-> tst, ret |-> "data", loading |-> FALSE]
    ELSE [toast |-> showToast("Failed to load plagiarism report", "error"),
          ret |-> "null", loading |-> FALSE]

GetSettles(c, ok) ==
    /\ ~EffectsDue
    /\ c.kind = "get"
    /\ ok => c.id \in db
    /\ LET k == getReportSettled(ok, toast)
       IN /\ toast' = k.toast
          /\ loading' = k.loading
          /\ ev' = Ev(IF ok THEN "getOk" ELSE "getFail", k.ret)
    /\ provDue' = ~ok
    /\ others' = others (-) Sent(c)
    /\ UNCHANGED <<pageVars, docVars, availableSources, token, reports, error, pagination, mounted, calls, db, nextId, pageDue>>

(***************************************************************************)
(* compareDocuments, ReportContext.jsx:83-124.                             *)
(***************************************************************************)
\* The POST /report/compare requests in flight.
ComparesSent ==
    BagCardinality([c \in {x \in BagToSet(others) : x.kind = "compare"} |-> others[c]])

CompareDocuments ==
    /\ ~EffectsDue
    /\ IF ~token
       THEN /\ ev' = Ev("other", "null")
            /\ UNCHANGED <<others, loading>>
       ELSE /\ Room(1)
            /\ nextId + ComparesSent <= MaxReports
            /\ loading' = TRUE
            /\ others' = others (+) Sent(Call("compare", "compareDocuments", pagination, TRUE, NoSuchId))
            /\ ev' = Ev("other", "none")
    /\ UNCHANGED <<pageVars, docVars, availableSources, token, reports, error, pagination, toast, mounted, calls, db,
                   nextId, provDue, pageDue>>

\* After `await api.post` (ReportContext.jsx:89-123): started, the toast
\* and the refresh it awaits (lines 100-101); failed, one of the error
\* toasts, null, and the finally.
compareDocumentsSettled(ok, c, ld) ==
    IF ok
    THEN [toast   |-> showToast("Plagiarism check started", "success"),
          refresh |-> fetchReports(TRUE, c, "compare", TRUE),
          ret     |-> "none",
          loading |-> TRUE]
    ELSE [toast   |-> showToast("Failed to start plagiarism check", "error"),
          refresh |-> <<>>,
          ret     |-> "null",
          loading |-> FALSE]

\* POST /report/compare creates a report on the backend.
CompareSettles(c, ok) ==
    /\ ~EffectsDue
    /\ c.kind = "compare"
    /\ LET k == compareDocumentsSettled(ok, c, loading)
       IN /\ db' = (IF ok THEN db \cup {nextId} ELSE db)
          /\ nextId' = (IF ok THEN nextId + 1 ELSE nextId)
          /\ toast' = k.toast
          /\ others' = others (-) Sent(c)
          /\ calls' = calls \o k.refresh
          /\ loading' = k.loading
          /\ error' = (IF k.refresh # <<>> THEN NoError ELSE error)
          /\ ev' = Ev(IF ok THEN "compareOk" ELSE "compareFail", k.ret)
    /\ provDue' = TRUE
    /\ UNCHANGED <<pageVars, docVars, availableSources, token, reports, pagination, mounted, pageDue>>

(***************************************************************************)
(* getDocumentReports, ReportContext.jsx:142-157.                          *)
(***************************************************************************)
GetDocumentReports ==
    /\ ~EffectsDue
    /\ IF ~token
       THEN /\ ev' = Ev("other", "empty")
            /\ UNCHANGED <<others, loading>>
       ELSE /\ Room(1)
            /\ loading' = TRUE
            /\ others' = others (+) Sent(Call("docs", "getDocumentReports", InitPagination, TRUE, NoSuchId))
            /\ ev' = Ev("other", "none")
    /\ UNCHANGED <<pageVars, docVars, availableSources, token, reports, error, pagination, toast, mounted,
                   calls, db, nextId, provDue, pageDue>>

\* A variant of getDocumentReportsSettled without the finally.
getDocumentReportsSettledNoFinally(ok, tst) ==
    IF ok
    THEN [toast |-> tst, ret |-> "data", loading |-> FALSE]
    ELSE [toast |-> showToast("Failed to load document reports", "error"),
          ret |-> "empty", loading |-> TRUE]

\* After `await api.get` (ReportContext.jsx:147-156).
getDocumentReportsSettled(ok, tst) ==
    IF ok
    THEN [toast |-> tst, ret |-> "data", loading |-> FALSE]
    ELSE [toast |-> showToast("Failed to load document reports", "error"),
          ret |-> "empty", loading |-> FALSE]

DocumentReportsSettle(c, ok) ==
    /\ ~EffectsDue
    /\ c.kind = "docs"
    /\ LET k == getDocumentReportsSettled(ok, toast)
       IN /\ toast' = k.toast
          /\ loading' = k.loading
          /\ ev' = Ev(IF ok THEN "docsOk" ELSE "docsFail", k.ret)
    /\ provDue' = ~ok
    /\ others' = others (-) Sent(c)
    /\ UNCHANGED <<pageVars, docVars, availableSources, token, reports, error, pagination, mounted, calls,
                   db, nextId, pageDue>>

(***************************************************************************)
(* checkDocumentPlagiarism, getCheckStatus and getAvailableSources,        *)
(* ReportContext.jsx:166-201: none of them looks at the token.             *)
(***************************************************************************)
\* The POST /report/check requests in flight.
ChecksSent ==
    BagCardinality([c \in {x \in BagToSet(others) : x.kind = "check"} |-> others[c]])

CheckDocumentPlagiarism ==
    /\ ~EffectsDue
    /\ Room(1)
    /\ nextId + ComparesSent + ChecksSent <= MaxReports
    /\ others' = others (+) Sent(Call("check", "checkDocumentPlagiarism", InitPagination, FALSE, NoSuchId))
    /\ ev' = Ev("other", "none")
    /\ UNCHANGED <<pageVars, docVars, availableSources, token, reports, loading, error, pagination, toast,
                   mounted, calls, db, nextId, provDue, pageDue>>

\* After `await api.post` (ReportContext.jsx:168-178): the response's data,
\* or the error thrown again.
checkDocumentPlagiarismSettled(ok) == IF ok THEN "data" ELSE "throw"

\* POST /report/check creates a report on the backend.
CheckSettles(c, ok) ==
    /\ ~EffectsDue
    /\ c.kind = "check"
    /\ ok => token
    /\ db' = (IF ok THEN db \cup {nextId} ELSE db)
    /\ nextId' = (IF ok THEN nextId + 1 ELSE nextId)
    /\ others' = others (-) Sent(c)
    /\ ev' = Ev(IF ok THEN "checkOk" ELSE "checkFail", checkDocumentPlagiarismSettled(ok))
    /\ UNCHANGED <<pageVars, docVars, availableSources, token, reports, loading, error, pagination, toast,
                   mounted, calls, provDue, pageDue>>

GetCheckStatus ==
    /\ ~EffectsDue
    /\ Room(1)
    /\ others' = others (+) Sent(Call("status", "getCheckStatus", InitPagination, FALSE, NoSuchId))
    /\ ev' = Ev("other", "none")
    /\ UNCHANGED <<pageVars, docVars, availableSources, token, reports, loading, error, pagination, toast,
                   mounted, calls, db, nextId, provDue, pageDue>>

\* After `await api.get` (ReportContext.jsx:182-189).
getCheckStatusSettled(ok) == IF ok THEN "data" ELSE "throw"

StatusSettles(c, ok) ==
    /\ ~EffectsDue
    /\ c.kind = "status"
    /\ ok => token
    /\ others' = others (-) Sent(c)
    /\ ev' = Ev(IF ok THEN "statusOk" ELSE "statusFail", getCheckStatusSettled(ok))
    /\ UNCHANGED <<pageVars, docVars, availableSources, token, reports, loading, error, pagination, toast,
                   mounted, calls, db, nextId, provDue, pageDue>>

\* The sources GET /report/sources lists.
Sources == <<"user_documents", "web">>

GetAvailableSources ==
    /\ ~EffectsDue
    /\ Room(1)
    /\ others' = others (+) Sent(Call("sources", "getAvailableSources", InitPagination, FALSE, NoSuchId))
    /\ ev' = Ev("other", "none")
    /\ UNCHANGED <<pageVars, docVars, availableSources, token, reports, loading, error, pagination, toast,
                   mounted, calls, db, nextId, provDue, pageDue>>

\* After `await api.get` (ReportContext.jsx:194-200).
getAvailableSourcesSettled(ok, srcs) ==
    IF ok
    THEN [availableSources |-> Sources, ret |-> "data"]
    ELSE [availableSources |-> srcs, ret |-> "empty"]

SourcesSettle(c, ok) ==
    /\ ~EffectsDue
    /\ c.kind = "sources"
    /\ ok => token
    /\ LET k == getAvailableSourcesSettled(ok, availableSources)
       IN /\ availableSources' = k.availableSources
          /\ ev' = Ev(IF ok THEN "sourcesOk" ELSE "sourcesFail", k.ret)
    /\ others' = others (-) Sent(c)
    /\ UNCHANGED <<pageVars, docVars, token, reports, loading, error, pagination, toast,
                   mounted, calls, db, nextId, provDue, pageDue>>

(***************************************************************************)
(* downloadReport, ReportContext.jsx:204-240.                              *)
(***************************************************************************)
DownloadReport ==
    /\ ~EffectsDue
    /\ IF ~token
       THEN /\ ev' = Ev("other", "undefined")
            /\ UNCHANGED others
       ELSE /\ Room(1)
            /\ others' = others (+) Sent(Call("download", "downloadReport", InitPagination, FALSE, NoSuchId))
            /\ ev' = Ev("other", "none")
    /\ UNCHANGED <<pageVars, docVars, availableSources, token, reports, loading, error, pagination, toast,
                   mounted, calls, db, nextId, provDue, pageDue>>

\* After `await api.get` (ReportContext.jsx:207-239): the file is saved, or
\* the error toast; it returns nothing either way.
downloadReportSettled(ok, tst) ==
    IF ok
    THEN [toast |-> tst, ret |-> "undefined"]
    ELSE [toast |-> showToast("Failed to download report", "error"), ret |-> "undefined"]

DownloadSettles(c, ok) ==
    /\ ~EffectsDue
    /\ c.kind = "download"
    /\ LET k == downloadReportSettled(ok, toast)
       IN /\ toast' = k.toast
          /\ ev' = Ev(IF ok THEN "downloadOk" ELSE "downloadFail", k.ret)
    /\ provDue' = ~ok
    /\ others' = others (-) Sent(c)
    /\ UNCHANGED <<pageVars, docVars, availableSources, token, reports, loading, error, pagination, mounted,
                   calls, db, nextId, pageDue>>

(***************************************************************************)
(* The compare page's handleCompare, CompareDocuments.jsx:37-52: the       *)
(* validation of the two slots and the call of compareDocuments.  The page *)
(* is behind ProtectedRoute (App.jsx:19-24, 40) and replaces the reports   *)
(* page on screen.                                                         *)
(***************************************************************************)
NoFile == "null"
Files == {"doc1", "doc2"}

\* The toast of the validation that fails, CompareDocuments.jsx:38-46, or
\* NoToast when both pass.
handleCompareValidation(f1, f2) ==
    IF f1 = NoFile \/ f2 = NoFile
    THEN showToast("Please select two documents to compare", "error")
    ELSE IF f1 = f2
    THEN showToast("Please select different documents to compare", "error")
    ELSE NoToast

\* A click on Compare: its render's effects run before the step ends, and
\* the new toast has re-created fetchReports (ReportContext.jsx:52-58).
HandleCompare(f1, f2) ==
    /\ ~EffectsDue /\ token /\ ~mounted
    /\ LET invalid == handleCompareValidation(f1, f2)
       IN IF invalid # NoToast
          THEN /\ Room(1)
               /\ toast' = invalid
               /\ Commit(token, pagination, TRUE, FALSE, calls, loading, error)
               /\ ev' = Ev("invalid", "none")
               /\ UNCHANGED others
          ELSE /\ Room(2)
               /\ nextId + ComparesSent + ChecksSent <= MaxReports
               /\ toast' = showToast("Comparing documents...", "loading")
               /\ others' = others (+) Sent(Call("compare", "compareDocuments", pagination, TRUE, NoSuchId))
               /\ Commit(token, pagination, TRUE, FALSE, calls, TRUE, error)
               /\ ev' = Ev("other", "none")
    /\ UNCHANGED <<pageVars, docVars, availableSources, token, reports, pagination, mounted, db, nextId>>

(***************************************************************************)
(* The document store, DocumentContext.jsx.  Its toasts go through the     *)
(* same ToastContext, so each of them leaves the report provider's effect  *)
(* to run.                                                                 *)
(***************************************************************************)
\* What stays as it is in a step of the document store that shows no toast.
reportVars == <<token, reports, loading, error, pagination, toast, mounted, calls,
                others, db, nextId, provDue, pageDue, availableSources>>

\* GET /document/list answers with the backend's documents.
DocumentList(d) == SortedSeq(d)

\* fetchDocuments, DocumentContext.jsx:21-28, up to the request it sends.
fetchDocuments(tok, origin) == IF ~tok THEN <<>> ELSE <<origin>>

\* checkGoogleDriveConnection finds the account linked (AuthContext); the
\* provider's effect (DocumentContext.jsx:15-19) then calls fetchDocuments.
ConnectDrive ==
    /\ ~EffectsDue /\ token /\ ~connectedToDrive
    /\ connectedToDrive' = TRUE
    /\ LET new == fetchDocuments(token, "effect")
       IN /\ docCalls' = docCalls \o new
          /\ docLoading' = (IF new # <<>> THEN TRUE ELSE docLoading)
          /\ docError' = (IF new # <<>> THEN NoError ELSE docError)
    /\ ev' = Ev("other", "none")
    /\ UNCHANGED <<pageVars, reportVars, documents, drive, up>>

\* `${uploadedFiles.length} files uploaded successfully!`
CountMessage(n) == ToString(n) \o " files uploaded successfully!"

\* uploadMultipleDocuments(files), DocumentContext.jsx:75-91, called from a
\* drop of n files (CompareDocuments.jsx:72-73), up to the first POST.
UploadMultipleDocuments(n) ==
    /\ ~EffectsDue /\ up.pc = "idle"
    /\ IF ~token \/ ~connectedToDrive
       THEN /\ Room(1)
            /\ docError' = "You must be connected to Google Drive to upload documents"
            /\ toast' = showToast("You must be connected to Google Drive to upload documents", "error")
            /\ Commit(token, pagination, TRUE, FALSE, calls, loading, error)
            /\ up' = [UpIdle EXCEPT !.pc = "done", !.files = [k \in 1..n |-> k]]
            /\ UNCHANGED docLoading
       ELSE /\ docLoading' = TRUE
            /\ docError' = NoError
            /\ up' = [UpIdle EXCEPT !.pc = "post", !.files = [k \in 1..n |-> k], !.i = 1]
            /\ UNCHANGED <<toast, calls, loading, error, provDue, pageDue>>
    /\ ev' = Ev("other", "none")
    /\ UNCHANGED <<pageVars, token, reports, pagination, mounted, others, db, nextId,
                   availableSources, connectedToDrive, documents, drive, docCalls>>

\* After `await api.post` of file i (DocumentContext.jsx:91-113): stored,
\* the file is pushed and the loop goes on, or, after the last file, the
\* list is refreshed (line 102); failed, the catch ends the whole call.
uploadSettled(ok, u, ld, er, tst) ==
    IF ok
    THEN LET done == Append(u.uploadedFiles, u.files[u.i])
         IN IF u.i < Len(u.files)
            THEN [up |-> [u EXCEPT !.i = u.i + 1, !.uploadedFiles = done],
                  refresh |-> <<>>, docLoading |-> ld, docError |-> er, toast |-> tst]
            ELSE [up |-> [u EXCEPT !.pc = "list", !.uploadedFiles = done],
                  refresh |-> fetchDocuments(TRUE, "upload"),
                  docLoading |-> TRUE, docError |-> NoError, toast |-> tst]
    ELSE [up |-> [u EXCEPT !.pc = "done", !.failed = u.failed + 1, !.ret = u.uploadedFiles],
          refresh |-> <<>>,
          docLoading |-> FALSE,
          docError |-> "Failed to upload some documents. Please try again.",
          toast |-> showToast("Failed to upload some documents", "error")]

\* POST /document/upload stores the file on the drive, or fails.
UploadSettles(ok) ==
    /\ ~EffectsDue /\ up.pc = "post"
    /\ LET k == uploadSettled(ok, up, docLoading, docError, toast)
       IN /\ up' = k.up
          /\ docCalls' = docCalls \o k.refresh
          /\ docLoading' = k.docLoading
          /\ docError' = k.docError
          /\ toast' = k.toast
          /\ provDue' = (k.toast # toast)
    /\ drive' = (IF ok THEN drive \cup {up.files[up.i]} ELSE drive)
    /\ ev' = Ev("other", "none")
    /\ UNCHANGED <<pageVars, token, reports, loading, error, pagination, mounted, calls, others,
                   db, nextId, pageDue, availableSources, connectedToDrive, documents>>

\* fetchDocuments after its request settled (DocumentContext.jsx:28-36),
\* and, when uploadMultipleDocuments awaited it, the rest of that call
\* (lines 103-105, 111-113): fetchDocuments catches its own failure, so the
\* count toast follows either way.
fetchDocumentsSettled(ok, origin, u, docs, d, er, tst) ==
    LET fetched == [documents |-> IF ok THEN DocumentList(d) ELSE docs,
                    docError  |-> IF ok THEN er
                                  ELSE "Failed to load your documents. Please try again.",
                    toast     |-> IF ok THEN tst
                                  ELSE showToast("Failed to load your documents", "error")]
    IN IF origin = "upload"
       THEN [documents |-> fetched.documents, docError |-> fetched.docError,
             toast |-> showToast(CountMessage(Len(u.uploadedFiles)), "success"),
             up |-> [u EXCEPT !.pc = "done", !.ret = u.uploadedFiles]]
       ELSE [documents |-> fetched.documents, docError |-> fetched.docError,
             toast |-> fetched.toast, up |-> u]

\* The effect of the compare page on [documents], CompareDocuments.jsx:24-29.
documentsEffect(dl, docs) == IF Len(docs) > 0 THEN FALSE ELSE dl

DocumentsFetchSettles(i, ok) ==
    /\ ~EffectsDue
    /\ LET k == fetchDocumentsSettled(ok, docCalls[i], up, documents, drive, docError, toast)
       IN /\ documents' = k.documents
          /\ docError' = k.docError
          /\ toast' = k.toast
          /\ up' = k.up
          /\ provDue' = (k.toast # toast)
          /\ docsLoading' = (IF view = "compare" /\ ok
                             THEN documentsEffect(docsLoading, k.documents)
                             ELSE docsLoading)
    /\ docLoading' = FALSE
    /\ docCalls' = Remove(docCalls, i)
    /\ ev' = Ev("other", "none")
    /\ UNCHANGED <<filterVars, deleteVars, view, checkVars, token, reports, loading, error,
                   pagination, mounted, calls, others, db, nextId, pageDue,
                   availableSources, connectedToDrive, drive>>

\* Opening /dashboard/compare: docsLoading starts true (line 16) and the
\* effect runs after the first render with the documents the store holds.
OpenComparePage ==
    /\ ~EffectsDue /\ token /\ ~mounted /\ view = "none"
    /\ view' = "compare"
    /\ docsLoading' = documentsEffect(TRUE, documents)
    /\ ev' = Ev("other", "none")
    /\ UNCHANGED <<reportVars, docVars, filterVars, deleteVars, checkVars>>

(***************************************************************************)
(* The general check page, GeneralPlagiarismCheck.jsx: its sources.        *)
(***************************************************************************)
\* Opening /dashboard/plagiarism: the component's state starts from its
\* initial values and its effect (lines 25-28) calls fetchDocuments() and
\* loadSources(), which calls getAvailableSources() (lines 30-33).
OpenCheckPage ==
    /\ ~EffectsDue /\ token /\ ~mounted /\ view = "none"
    /\ Room(1)
    /\ view' = "check"
    /\ selectedSources' = <<"user_documents", "web">>
    /\ loadingSources' = TRUE
    /\ LET new == fetchDocuments(token, "effect")
       IN /\ docCalls' = docCalls \o new
          /\ docLoading' = (IF new # <<>> THEN TRUE ELSE docLoading)
          /\ docError' = (IF new # <<>> THEN NoError ELSE docError)
    /\ others' = others (+) Sent(Call("sources", "loadSources", InitPagination, FALSE, NoSuchId))
    /\ ev' = Ev("other", "none")
    /\ UNCHANGED <<token, reports, loading, error, pagination, toast, mounted, calls,
                   db, nextId, provDue, pageDue, availableSources, connectedToDrive,
                   documents, drive, up, filterVars, deleteVars, docsLoading>>

\* loadSources after getAvailableSources() returned (lines 33-38).
LoadSourcesSettles(c, ok) ==
    /\ ~EffectsDue /\ view = "check"
    /\ c.kind = "sources" /\ c.origin = "loadSources"
    /\ LET k == getAvailableSourcesSettled(ok, availableSources)
       IN /\ availableSources' = k.availableSources
          /\ ev' = Ev(IF ok THEN "sourcesOk" ELSE "sourcesFail", k.ret)
    /\ loadingSources' = FALSE
    /\ others' = others (-) Sent(c)
    /\ UNCHANGED <<token, reports, loading, error, pagination, toast, mounted, calls,
                   db, nextId, provDue, pageDue, docVars, filterVars, deleteVars, view,
                   docsLoading, selectedSources>>

\* A variant of handleSourceToggle that lets the last source go.
handleSourceToggleAny(selected, sourceId) ==
    IF \E k \in 1..Len(selected) : selected[k] = sourceId
    THEN SelectSeq(selected, LAMBDA id : id # sourceId)
    ELSE selected \o <<sourceId>>

\* handleSourceToggle, GeneralPlagiarismCheck.jsx:41-50: the next value of
\* selectedSources.
handleSourceToggle(selected, sourceId) ==
    IF \E k \in 1..Len(selected) : selected[k] = sourceId
    THEN IF Len(selected) > 1
         THEN SelectSeq(selected, LAMBDA id : id # sourceId)
         ELSE selected
    ELSE selected \o <<sourceId>>

\* A click on the pill of one of the listed sources (lines 161-178).
HandleSourceToggle(sourceId) ==
    /\ ~EffectsDue /\ view = "check" /\ ~loadingSources
    /\ \E k \in 1..Len(availableSources) : availableSources[k] = sourceId
    /\ selectedSources' = handleSourceToggle(selectedSources, sourceId)
    /\ ev' = Ev(IF selectedSources = <<sourceId>> THEN "toggleIgnored" ELSE "toggleSource",
                "none")
    /\ UNCHANGED <<token, reports, loading, error, pagination, toast, mounted, calls,
                   others, db, nextId, provDue, pageDue, availableSources, docVars,
                   filterVars, deleteVars, view, docsLoading, loadingSources>>

(***************************************************************************)
(* The specification.                                                      *)
(***************************************************************************)
Next ==
    \/ FlushEffects
    \/ Mount
    \/ Unmount
    \/ Login
    \/ HideToast
    \/ \E n \in PageInputs : ChangePage(n)
    \/ \E i \in 1..Len(calls) : FetchOk(i)
    \/ \E i \in 1..Len(calls) : FetchFail(i)
    \/ \E id \in DeleteTargets : DeleteReport(id)
    \/ \E c \in BagToSet(others), acked \in BOOLEAN : DeleteSettles(c, acked)
    \/ \E id \in ReportIdInputs : GetReport(id)
    \/ \E c \in BagToSet(others), ok \in BOOLEAN : GetSettles(c, ok)
    \/ CompareDocuments
    \/ \E c \in BagToSet(others), ok \in BOOLEAN : CompareSettles(c, ok)

Spec == Init /\ [][Next]_vars

\* The store with all its operations, for a user who has no report yet.
OpsInit == Init /\ db = {}

OpsNext ==
    \/ Next
    \/ GetDocumentReports
    \/ \E c \in BagToSet(others), ok \in BOOLEAN : DocumentReportsSettle(c, ok)
    \/ CheckDocumentPlagiarism
    \/ \E c \in BagToSet(others), ok \in BOOLEAN : CheckSettles(c, ok)
    \/ GetCheckStatus
    \/ \E c \in BagToSet(others), ok \in BOOLEAN : StatusSettles(c, ok)
    \/ GetAvailableSources
    \/ \E c \in BagToSet(others), ok \in BOOLEAN : SourcesSettle(c, ok)
    \/ DownloadReport
    \/ \E c \in BagToSet(others), ok \in BOOLEAN : DownloadSettles(c, ok)
    \/ \E f1, f2 \in Files \cup {NoFile} : HandleCompare(f1, f2)

OpsSpec == OpsInit /\ [][OpsNext]_vars

\* The document store, and the report provider's reaction to its toasts,
\* for a signed-in user who has no report yet.
UploadInit == Init /\ token /\ db = {}

UploadNext ==
    \/ FlushEffects
    \/ HideToast
    \/ \E i \in 1..Len(calls) : FetchOk(i)
    \/ \E i \in 1..Len(calls) : FetchFail(i)
    \/ ConnectDrive
    \/ \E n \in 1..MaxFiles : UploadMultipleDocuments(n)
    \/ \E ok \in BOOLEAN : UploadSettles(ok)
    \/ \E i \in 1..Len(docCalls), ok \in BOOLEAN : DocumentsFetchSettles(i, ok)

UploadSpec == UploadInit /\ [][UploadNext]_vars

(***************************************************************************)
(* The derived view of the reports page and its FilterState,               *)
(* PlagiarismReports.jsx:14-18, 56-91 and 107-168.                         *)
(***************************************************************************)
\* A report without a name, a document without one, a report without a
\* similarity score, as the page reads them (`|| ''`, `?.name || ''`,
\* `|| 0`, PlagiarismReports.jsx:67-69 and 86-87).
NoName == <<"null">>
NoScore == -1

\* The reports the backend holds: report id has the fields of entry
\* ((id - 1) % Len(Catalogue)) + 1.  Names are sequences of characters.
Catalogue ==
    << [report_type |-> "comparison", detection_method |-> "tfidf",
        name |-> <<"A", "b">>, document1 |-> <<"c">>, document2 |-> <<"a", "B">>,
        created_at |-> 3, similarity_score |-> 40],
       [report_type |-> "general", detection_method |-> "embeddings",
        name |-> NoName, document1 |-> <<"B", "a">>, document2 |-> NoName,
        created_at |-> 1, similarity_score |-> NoScore],
       [report_type |-> "comparison", detection_method |-> "embeddings",
        name |-> <<"b">>, document1 |-> <<"A">>, document2 |-> <<"c", "c">>,
        created_at |-> 3, similarity_score |-> 75],
       [report_type |-> "general", detection_method |-> "tfidf",
        name |-> <<"a", "b", "a">>, document1 |-> NoName, document2 |-> NoName,
        created_at |-> 2, similarity_score |-> 40],
       [report_type |-> "comparison", detection_method |-> "tfidf",
        name |-> <<>>, document1 |-> <<"b", "B">>, document2 |-> <<"a">>,
        created_at |-> 4, similarity_score |-> 0] >>

ReportOf(id) == Catalogue[((id - 1) % Len(Catalogue)) + 1]

\* String.prototype.toLowerCase and String.prototype.includes on the
\* characters of the model.
toLowerCase(s) ==
    [k \in 1..Len(s) |-> CASE s[k] = "A" -> "a" [] s[k] = "B" -> "b" [] OTHER -> s[k]]

includes(s, t) ==
    \E k \in 0..(Len(s) - Len(t)) : SubSeq(s, k + 1, k + Len(t)) = t

orEmpty(n) == IF n = NoName THEN <<>> ELSE n

\* A variant of the filter callback whose search compares case-sensitively.
passesFiltersCaseSensitive(r, ft, fm, term) ==
    IF ft # "all" /\ r.report_type # ft THEN FALSE
    ELSE IF fm # "all" /\ r.detection_method # fm THEN FALSE
    ELSE IF term # NoTerm
         THEN \/ includes(orEmpty(r.name), term)
              \/ includes(orEmpty(r.document1), term)
              \/ includes(orEmpty(r.document2), term)
         ELSE TRUE

\* The callback of reports.filter, PlagiarismReports.jsx:57-77.
passesFilters(r, ft, fm, term) ==
    IF ft # "all" /\ r.report_type # ft THEN FALSE
    ELSE IF fm # "all" /\ r.detection_method # fm THEN FALSE
    ELSE IF term # NoTerm
         THEN LET t == toLowerCase(term)
                  reportName == toLowerCase(orEmpty(r.name))
                  doc1Name == toLowerCase(orEmpty(r.document1))
                  doc2Name == toLowerCase(orEmpty(r.document2))
              IN includes(reportName, t) \/ includes(doc1Name, t) \/ includes(doc2Name, t)
         ELSE TRUE

filteredReports(rep, ft, fm, term) ==
    SelectSeq(rep, LAMBDA id : passesFilters(ReportOf(id), ft, fm, term))

\* The comparator of the sort, PlagiarismReports.jsx:80-91.
compareReports(a, b, by, order) ==
    IF by = "date"
    THEN IF order = "asc" THEN a.created_at - b.created_at
                          ELSE b.created_at - a.created_at
    ELSE IF by = "similarity"
         THEN LET scoreA == IF a.similarity_score = NoScore THEN 0 ELSE a.similarity_score
                  scoreB == IF b.similarity_score = NoScore THEN 0 ELSE b.similarity_score
              IN IF order = "asc" THEN scoreA - scoreB ELSE scoreB - scoreA
         ELSE 0

\* Array.prototype.sort is stable: a report goes behind those the
\* comparator does not put after it.
RECURSIVE sortStable(_, _, _)
sortStable(s, by, order) ==
    IF s = <<>> THEN <<>>
    ELSE LET x == s[Len(s)]
             t == sortStable(SubSeq(s, 1, Len(s) - 1), by, order)
             n == Cardinality({j \in 1..Len(t) :
                     compareReports(ReportOf(t[j]), ReportOf(x), by, order) <= 0})
         IN SubSeq(t, 1, n) \o <<x>> \o SubSeq(t, n + 1, Len(t))

\* [...filteredReports].sort(...), a copy: PlagiarismReports.jsx:80.
sortedReports(filtered, by, order) == sortStable(filtered, by, order)

\* The list the page shows.
DerivedList ==
    sortedReports(filteredReports(reports, filterType, filterMethod, searchTerm),
                  sortBy, sortOrder)

\* What the filter pills and the search box offer (PlagiarismReports.jsx:
\* 112-158) and what the user types.
TypeOptions == {"all", "comparison", "general"}
MethodOptions == {"all", "embeddings", "tfidf"}
SortOptions == {<<"date", "desc">>, <<"date", "asc">>,
                <<"similarity", "desc">>, <<"similarity", "asc">>}
SearchTerms == {NoTerm, <<"a">>, <<"A", "B">>, <<"c">>}

\* What a step of the reports page that only sets FilterState leaves alone.
besideFilterVars ==
    <<token, reports, loading, error, pagination, toast, mounted, calls, others,
      db, nextId, provDue, pageDue, availableSources, docVars, deleteVars, view,
      docsLoading, checkVars>>

SetFilterType(type) ==
    /\ mounted /\ ~EffectsDue
    /\ filterType' = type
    /\ ev' = Ev("setFilterType", "none")
    /\ UNCHANGED <<besideFilterVars, filterMethod, sortBy, sortOrder, searchTerm>>

SetFilterMethod(m) ==
    /\ mounted /\ ~EffectsDue
    /\ filterMethod' = m
    /\ ev' = Ev("setFilterMethod", "none")
    /\ UNCHANGED <<besideFilterVars, filterType, sortBy, sortOrder, searchTerm>>

\* A variant of SetSort that sorts the stored list in place.
SetSortInPlace(opt) ==
    /\ mounted /\ ~EffectsDue
    /\ sortBy' = opt[1]
    /\ sortOrder' = opt[2]
    /\ reports' = sortedReports(reports, opt[1], opt[2])
    /\ ev' = Ev("setSort", "none")
    /\ UNCHANGED <<token, loading, error, pagination, toast, mounted, calls, others,
                   db, nextId, provDue, pageDue, availableSources, docVars, deleteVars,
                   view, docsLoading, checkVars, filterType, filterMethod, searchTerm>>

\* const [by, order] = opt.id.split('-'), PlagiarismReports.jsx:152.
SetSort(opt) ==
    /\ mounted /\ ~EffectsDue
    /\ sortBy' = opt[1]
    /\ sortOrder' = opt[2]
    /\ ev' = Ev("setSort", "none")
    /\ UNCHANGED <<besideFilterVars, filterType, filterMethod, searchTerm>>

SetSearchTerm(term) ==
    /\ mounted /\ ~EffectsDue
    /\ searchTerm' = term
    /\ ev' = Ev("setSearchTerm", "none")
    /\ UNCHANGED <<besideFilterVars, filterType, filterMethod, sortBy, sortOrder>>

\* The Clear All pill, PlagiarismReports.jsx:160-165.
ClearAll ==
    /\ mounted /\ ~EffectsDue
    /\ \/ searchTerm # NoTerm \/ filterType # "all" \/ filterMethod # "all"
       \/ sortBy # "date" \/ sortOrder # "desc"
    /\ searchTerm' = NoTerm
    /\ filterType' = "all"
    /\ filterMethod' = "all"
    /\ sortBy' = "date"
    /\ sortOrder' = "desc"
    /\ ev' = Ev("clearAll", "none")
    /\ UNCHANGED besideFilterVars

\* The Clear Filters button of the empty view, PlagiarismReports.jsx:194-212.
ClearFilters ==
    /\ mounted /\ ~EffectsDue
    /\ ~loading /\ DerivedList = <<>>
    /\ searchTerm # NoTerm \/ filterType # "all" \/ filterMethod # "all"
    /\ searchTerm' = NoTerm
    /\ filterType' = "all"
    /\ filterMethod' = "all"
    /\ ev' = Ev("clearFilters", "none")
    /\ UNCHANGED <<besideFilterVars, sortBy, sortOrder>>

(***************************************************************************)
(* Deleting a report from the reports page, PlagiarismReports.jsx:26-45    *)
(* and 226-231, ConfirmDeleteModal.jsx.                                    *)
(***************************************************************************)
\* What a step of the delete modal that sends nothing leaves alone.
besideDeleteVars ==
    <<token, reports, loading, error, pagination, toast, mounted, calls, others,
      db, nextId, provDue, pageDue, availableSources, docVars, filterVars, view,
      docsLoading, checkVars>>

\* The delete button of a card (ReportCard.jsx:132): the cards are shown
\* when the list is not loading; the modal covers them once it is open.
HandleDeleteReport(id) ==
    /\ mounted /\ ~EffectsDue /\ ~loading
    /\ deleteTarget = NoSuchId
    /\ \E k \in 1..Len(DerivedList) : DerivedList[k] = id
    /\ deleteTarget' = id
    /\ ev' = Ev("other", "none")
    /\ UNCHANGED <<besideDeleteVars, deleteLoading>>

CancelDeleteReport ==
    /\ mounted /\ ~EffectsDue
    /\ deleteTarget # NoSuchId /\ ~deleteLoading
    /\ deleteTarget' = NoSuchId
    /\ ev' = Ev("other", "none")
    /\ UNCHANGED <<besideDeleteVars, deleteLoading>>

\* confirmDeleteReport up to `await deleteReport(report.id)`, lines 30-33;
\* the page is behind ProtectedRoute, so a token is held and deleteReport
\* sends its DELETE (ReportContext.jsx:126-130).
ConfirmDeleteReport ==
    /\ mounted /\ ~EffectsDue /\ token
    /\ deleteTarget # NoSuchId /\ ~deleteLoading
    /\ Room(1)
    /\ deleteTarget \in db => Cardinality(db) - DeletesSent > InitReports - MaxDeleted
    /\ deleteLoading' = TRUE
    /\ others' = others (+) Sent(Call("delete", "confirmDeleteReport", pagination, FALSE,
                                      deleteTarget))
    /\ ev' = Ev("other", "none")
    /\ UNCHANGED <<token, reports, loading, error, pagination, toast, mounted, calls,
                   db, nextId, provDue, pageDue, availableSources, docVars, filterVars,
                   view, docsLoading, checkVars, deleteTarget>>

\* confirmDeleteReport after deleteReport returned ret, lines 34-40:
\* deleteReport catches its own failure and returns false
\* (ReportContext.jsx:135-138), so the catch of line 36 is never entered.
confirmDeleteReportReturned(ret, target) ==
    [toast |-> showToast("Report deleted successfully", "success"),
     deleteTarget |-> NoSuchId, deleteLoading |-> FALSE]

\* The DELETE of the page settles.  Rejected, deleteReport returns at once
\* and confirmDeleteReport goes on in the same run; acknowledged,
\* deleteReport awaits the refresh first.
ConfirmDeleteSettles(c, acked) ==
    /\ ~EffectsDue
    /\ c.kind = "delete" /\ c.origin = "confirmDeleteReport"
    /\ acked => c.id \in db
    /\ LET k == deleteReportSettled(acked, c, reports, error)
           page == confirmDeleteReportReturned(k.ret, deleteTarget)
           refresh == [i \in 1..Len(k.refresh) |->
                          [k.refresh[i] EXCEPT !.origin = "confirmDeleteReport"]]
       IN /\ db' = (IF acked THEN db \ {c.id} ELSE db)
          /\ reports' = k.reports
          /\ others' = others (-) Sent(c)
          /\ calls' = calls \o refresh
          /\ loading' = (IF refresh # <<>> THEN TRUE ELSE loading)
          /\ error' = (IF refresh # <<>> THEN NoError ELSE k.error)
          /\ toast' = (IF refresh # <<>> THEN k.toast ELSE page.toast)
          /\ deleteTarget' = (IF refresh # <<>> THEN deleteTarget ELSE page.deleteTarget)
          /\ deleteLoading' = (IF refresh # <<>> THEN deleteLoading ELSE page.deleteLoading)
          /\ ev' = Ev(IF acked THEN "confirmDeleteOk" ELSE "confirmDeleteFail", k.ret)
    /\ provDue' = TRUE
    /\ UNCHANGED <<token, pagination, mounted, nextId, pageDue, availableSources, docVars,
                   filterVars, view, docsLoading, checkVars>>

\* The refresh deleteReport awaited settles: fetchReports ends
\* (ReportContext.jsx:34-51), deleteReport returns true and
\* confirmDeleteReport goes on.
ConfirmRefreshSettles(i, ok) ==
    /\ ~EffectsDue
    /\ calls[i].origin = "confirmDeleteReport"
    /\ LET c == calls[i]
           new == IF ok
                  THEN fetchReportsOk(reports, pagination, ListResponse(db, c.page, c.perPage))
                  ELSE fetchReportsFailed(reports, pagination, c.showLoading, toast)
           moved == new.pagination.page # pagination.page
           page == confirmDeleteReportReturned("true", deleteTarget)
       IN /\ reports' = new.reports
          /\ pagination' = new.pagination
          /\ error' = (IF ok THEN error ELSE new.error)
          /\ loading' = LoadingAfterFetch(c, loading)
          /\ toast' = page.toast
          /\ deleteTarget' = page.deleteTarget
          /\ deleteLoading' = page.deleteLoading
          /\ pageDue' = (moved /\ mounted)
          /\ ev' = Ev(IF ok THEN "fetchOk" ELSE "fetchFail", "true")
    /\ provDue' = TRUE
    /\ calls' = Remove(calls, i)
    /\ UNCHANGED <<token, mounted, others, db, nextId, availableSources, docVars,
                   filterVars, view, docsLoading, checkVars>>

(***************************************************************************)
(* The pagination widget, components/Pagination.jsx, as the reports page   *)
(* renders it (PlagiarismReports.jsx:170-192).                             *)
(***************************************************************************)
MaxTotalPages == 10

\* The numbers getPageNumbers pushes, in the order of the pushes
\* (Pagination.jsx:6-19): 1, the loop from max(2, currentPage - 1) to
\* min(totalPages - 1, currentPage + 1), then totalPages if it exceeds 1.
pushedPages(currentPage, totalPages) ==
    LET lo == Max(2, currentPage - 1)
        hi == Min(totalPages - 1, currentPage + 1)
    IN <<1>> \o [k \in 1..Max(0, hi - lo + 1) |-> lo + k - 1]
            \o (IF totalPages > 1 THEN <<totalPages>> ELSE <<>>)

\* A variant of getPageNumbers that forgets the last page.
getPageNumbersNoLast(currentPage, totalPages) ==
    LET p == pushedPages(currentPage, totalPages)
    IN SortedSeq({p[k] : k \in 1..(Len(p) - 1)})

\* [...new Set(pages)].sort((a, b) => a - b), Pagination.jsx:21.
getPageNumbers(currentPage, totalPages) ==
    LET p == pushedPages(currentPage, totalPages)
    IN SortedSeq({p[k] : k \in 1..Len(p)})

\* showEllipsisBefore of the button at (1-based) position k,
\* Pagination.jsx:39-40.
showEllipsisBefore(pageNumbers, k) ==
    k > 1 /\ pageNumbers[k - 1] # pageNumbers[k] - 1

\* The Previous and the Next control, Pagination.jsx:29-35 and 56-62.
previousDisabled(currentPage) == currentPage = 1

previousTarget(currentPage) == Max(1, currentPage - 1)

nextDisabled(currentPage, totalPages) == currentPage = totalPages

\* A variant of nextTarget that wraps from the last page to the first.
nextTargetWraps(currentPage, totalPages) ==
    IF currentPage >= totalPages THEN 1 ELSE currentPage + 1

nextTarget(currentPage, totalPages) == Min(totalPages, currentPage + 1)

\* A variant of PaginationRendered without the page's pages > 1 guard.
PaginationRenderedAnyPages(ld, rep, pag) == ~ld /\ rep # <<>>

\* The reports page renders the widget when the list is not loading, the
\* list it shows (rep, the derived list) is not empty and there is more than
\* one page (PlagiarismReports.jsx:170-192).
PaginationRendered(ld, rep, pag) == ~ld /\ rep # <<>> /\ pag.pages > 1

\* The page-number buttons on the screen.
PageButtons ==
    IF mounted /\ PaginationRendered(loading, DerivedList, pagination)
    THEN getPageNumbers(pagination.page, pagination.pages)
    ELSE <<>>

\* onPageChange is handlePageChange, which calls changePage
\* (PlagiarismReports.jsx:52-54); a disabled button takes no click.
ClickPrevious ==
    /\ PageButtons # <<>>
    /\ ~previousDisabled(pagination.page)
    /\ ChangePage(previousTarget(pagination.page))

ClickNext ==
    /\ PageButtons # <<>>
    /\ ~nextDisabled(pagination.page, pagination.pages)
    /\ ChangePage(nextTarget(pagination.page, pagination.pages))

ClickPage(k) ==
    /\ k \in 1..Len(PageButtons)
    /\ ChangePage(PageButtons[k])

\* The reports page of a signed-in user who has between 2 and MaxTotalPages
\* pages of reports and has one of them on the screen.
WidgetInit ==
    \E t \in 2..MaxTotalPages : \E p \in 1..t :
        LET d == 1..((t - 1) * PerPageInit + 1)
            s == fetchReportsOk(<<>>, InitPagination, ListResponse(d, p, PerPageInit))
        IN /\ token = TRUE
           /\ db = d
           /\ nextId = Cardinality(d) + 1
           /\ reports = s.reports
           /\ pagination = s.pagination
           /\ loading = FALSE
           /\ error = NoError
           /\ toast = NoToast
           /\ mounted = TRUE
           /\ calls = <<>>
           /\ others = EmptyBag
           /\ provDue = FALSE
           /\ pageDue = FALSE
           /\ ev = Ev("init", "none")
           /\ availableSources = <<>>
           /\ connectedToDrive = FALSE
           /\ documents = <<>>
           /\ docLoading = FALSE
           /\ docError = NoError
           /\ drive = {}
           /\ docCalls = <<>>
           /\ up = UpIdle
           /\ PagesInit

WidgetNext ==
    \/ ClickPrevious
    \/ ClickNext
    \/ \E k \in 1..Len(PageButtons) : ClickPage(k)
    \/ \E i \in 1..Len(calls) : FetchOk(i)

WidgetSpec == WidgetInit /\ [][WidgetNext]_vars

\* The reports page with its filters: a signed-in user whose first page of
\* reports is on the screen.
FilterDbs == SUBSET (1..4) \cup {1..InitReports}

FilterInit ==
    \E d \in FilterDbs :
        LET s == fetchReportsOk(<<>>, InitPagination, ListResponse(d, 1, PerPageInit))
        IN /\ token = TRUE
           /\ db = d
           /\ nextId = InitReports + 1
           /\ reports = s.reports
           /\ pagination = s.pagination
           /\ loading = FALSE
           /\ error = NoError
           /\ toast = NoToast
           /\ mounted = TRUE
           /\ calls = <<>>
           /\ others = EmptyBag
           /\ provDue = FALSE
           /\ pageDue = FALSE
           /\ ev = Ev("init", "none")
           /\ availableSources = <<>>
           /\ connectedToDrive = FALSE
           /\ documents = <<>>
           /\ docLoading = FALSE
           /\ docError = NoError
           /\ drive = {}
           /\ docCalls = <<>>
           /\ up = UpIdle
           /\ PagesInit

FilterNext ==
    \/ \E type \in TypeOptions : SetFilterType(type)
    \/ \E m \in MethodOptions : SetFilterMethod(m)
    \/ \E opt \in SortOptions : SetSort(opt)
    \/ \E term \in SearchTerms : SetSearchTerm(term)
    \/ ClearAll
    \/ ClearFilters
    \/ ClickPrevious
    \/ ClickNext
    \/ \E k \in 1..Len(PageButtons) : ClickPage(k)
    \/ \E i \in 1..Len(calls) : FetchOk(i)

FilterSpec == FilterInit /\ [][FilterNext]_vars

\* The general check page of a signed-in user, with the providers around it.
CheckInit == Init /\ token /\ db = {}

CheckNext ==
    \/ FlushEffects
    \/ HideToast
    \/ \E i \in 1..Len(calls) : FetchOk(i)
    \/ \E i \in 1..Len(calls) : FetchFail(i)
    \/ OpenCheckPage
    \/ \E c \in BagToSet(others), ok \in BOOLEAN : LoadSourcesSettles(c, ok)
    \/ \E i \in 1..Len(docCalls), ok \in BOOLEAN : DocumentsFetchSettles(i, ok)
    \/ \E k \in 1..Len(Sources) : HandleSourceToggle(Sources[k])

CheckSpec == CheckInit /\ [][CheckNext]_vars

\* The report store of a signed-in user when requests are answered: the
\* effects left by a render run, and the oldest request in flight gets its
\* response at some time.
LiveInit == Init /\ token

UserStep == Mount \/ Unmount \/ HideToast \/ \E p \in PageInputs : ChangePage(p)

LiveNext ==
    \/ FlushEffects
    \/ HideToast
    \/ \E i \in 1..Len(calls) : FetchFail(i)
    \/ Mount
    \/ Unmount
    \/ \E p \in PageInputs : ChangePage(p)
    \/ \E i \in 1..Len(calls) : FetchOk(i)

\* The oldest list request settles: FetchOk(1) or FetchFail(1).
OldestSettles == calls # <<>> /\ ~EffectsDue /\ calls' = Tail(calls)

LiveSpec ==
    /\ LiveInit /\ [][LiveNext]_vars
    /\ WF_vars(FlushEffects)
    /\ WF_calls(OldestSettles)

\* The reports page with its delete modal, for a signed-in user.
ModalInit == Init /\ token

ModalNext ==
    \/ FlushEffects
    \/ Mount
    \/ HideToast
    \/ \E i \in 1..Len(calls) : calls[i].origin # "confirmDeleteReport" /\ FetchOk(i)
    \/ \E i \in 1..Len(calls) : calls[i].origin # "confirmDeleteReport" /\ FetchFail(i)
    \/ \E id \in DeleteTargets : HandleDeleteReport(id)
    \/ CancelDeleteReport
    \/ ConfirmDeleteReport
    \/ \E c \in BagToSet(others), acked \in BOOLEAN : ConfirmDeleteSettles(c, acked)
    \/ \E i \in 1..Len(calls), ok \in BOOLEAN : ConfirmRefreshSettles(i, ok)

ModalSpec == ModalInit /\ [][ModalNext]_vars

\* The compare page of a signed-in user when the document requests are
\* answered: the effects left by a render run, and the oldest document
\* request in flight gets its response at some time.
CompareInit == Init /\ token /\ db = {}

CompareNext ==
    \/ FlushEffects
    \/ HideToast
    \/ \E i \in 1..Len(calls) : FetchOk(i)
    \/ \E i \in 1..Len(calls) : FetchFail(i)
    \/ ConnectDrive
    \/ OpenComparePage
    \/ \E n \in 1..MaxFiles : UploadMultipleDocuments(n)
    \/ \E ok \in BOOLEAN : UploadSettles(ok)
    \/ \E i \in 1..Len(docCalls), ok \in BOOLEAN : DocumentsFetchSettles(i, ok)

OldestDocumentsSettle == docCalls # <<>> /\ ~EffectsDue /\ docCalls' = Tail(docCalls)

CompareSpec ==
    CompareInit /\ [][CompareNext]_vars /\ WF_vars(FlushEffects)
        /\ WF_docCalls(OldestDocumentsSettle)

(***************************************************************************)
(* Properties.                                                             *)
(***************************************************************************)
\* The response the backend gives to request c, and the PageState in it.
ResponseTo(c) == ListResponse(db, c.page, c.perPage)

PageStateOf(resp) ==
    [page |-> resp.page, perPage |-> resp.per_page, total |-> resp.total,
     pages |-> resp.pages]

\* C1: in the step that handles a failed list fetch the stored list and
\* PageState stay what they were, and the error flag holds the message.
C1_FetchFailurePreserves ==
    [][ev'.type = "fetchFail"
        => /\ reports' = reports
           /\ pagination' = pagination
           /\ error' = FetchErrorMsg
           /\ error' # NoError]_vars

\* A fetch has failed with a loaded list in the store.
C1_Witness ==
    /\ ev.type = "fetchFail"
    /\ reports # <<>>
    /\ pagination.total > 0
    /\ error = FetchErrorMsg

\* C2: the list and the totals of PageState change only in the step that
\* applies a successful list response, and that step takes the list and all
\* of page, perPage, total and pages from that one response.
C2_AtomicReplace ==
    [][(\/ reports' # reports
        \/ pagination'.total # pagination.total
        \/ pagination'.pages # pagination.pages
        \/ pagination'.perPage # pagination.perPage)
        => \E i \in 1..Len(calls) :
              /\ calls' = Remove(calls, i)
              /\ reports' = ResponseTo(calls[i]).reports
              /\ pagination' = PageStateOf(ResponseTo(calls[i]))]_vars

\* A response replaced a list and totals that another response had left.
C2_Witness ==
    /\ ev.type = "fetchOk"
    /\ reports # <<>>
    /\ pagination.total = Cardinality(db)
    /\ pagination.total < InitReports
    /\ pagination.total > 0

\* C3: with several list fetches in flight, the store after a successful
\* response is that response's list and PageState, wherever the request
\* stands among those in flight: the response that resolves last wins.
C3_LastResponseWins ==
    [][(ev'.type = "fetchOk" /\ Len(calls) >= 2)
        => \E i \in 1..Len(calls) :
              /\ calls' = Remove(calls, i)
              /\ <<reports', pagination'>> =
                    <<ResponseTo(calls[i]).reports, PageStateOf(ResponseTo(calls[i]))>>]_vars

\* The response to a request for a page that is no longer the current one
\* has been applied after the newer requests settled: it moved the store
\* back to its page.
C3_Witness ==
    /\ ev.type = "fetchOk"
    /\ provDue
    /\ calls = <<>>
    /\ reports # <<>>
    /\ reports = ListResponse(db, pagination.page, pagination.perPage).reports

\* C4: with pages >= 1, changePage(newPage) leaves PageState as it is when
\* newPage < 1 or newPage > pages; otherwise page is newPage afterwards and
\* perPage, total and pages are as before.
C4_ChangePageContract ==
    [][\A n \in PageInputs :
          (pagination.pages >= 1 /\ ChangePage(n))
          => IF n < 1 \/ n > pagination.pages
             THEN pagination' = pagination
             ELSE /\ pagination'.page = n
                  /\ pagination'.perPage = pagination.perPage
                  /\ pagination'.total = pagination.total
                  /\ pagination'.pages = pagination.pages]_vars

\* changePage has moved the store to the last of several pages.
C4_Witness ==
    /\ ev.type = "changePage"
    /\ pagination.pages >= 2
    /\ pagination.page = pagination.pages

\* C5 as stated: every changePage(newPage) with newPage in [1, pages] and a
\* token held sends a list request for page newPage, also when newPage is
\* the current page.
C5_EveryChangePageFetches ==
    [][\A n \in PageInputs :
          (token /\ n >= 1 /\ n <= pagination.pages /\ ChangePage(n))
          => /\ Len(calls') > Len(calls)
             /\ calls'[Len(calls')].kind = "list"
             /\ calls'[Len(calls')].page = n]_vars

\* C5, amended: every changePage(newPage) with newPage in [1, pages], a
\* token held and newPage other than the current page sends a list request
\* for page newPage.
C5_ChangePageToOtherPageFetches ==
    [][\A n \in PageInputs :
          (token /\ n >= 1 /\ n <= pagination.pages /\ n # pagination.page /\ ChangePage(n))
          => /\ Len(calls') > Len(calls)
             /\ \A k \in (Len(calls) + 1)..Len(calls') :
                   calls'[k].kind = "list" /\ calls'[k].page = n]_vars

\* changePage has moved the store from page 1, whose list it still holds,
\* to page 2, and the request for page 2 is in flight.
C5_Witness ==
    /\ ev.type = "changePage"
    /\ token
    /\ pagination.page = 2
    /\ reports # <<>> /\ reports[1] = 1
    /\ calls # <<>>
    /\ calls[Len(calls)].page = 2

\* C6: 1 <= page <= max(pages, 1) in every reachable state.
C6_PageWithinPages ==
    /\ pagination.page >= 1
    /\ pagination.page <= Max(pagination.pages, 1)

\* C7: page starts at 1 and changes only in a step of changePage; handling
\* a fetch response never changes it.
C7_PageChangesOnlyByChangePage ==
    [][pagination'.page # pagination.page => ev'.type = "changePage"]_vars

\* The refreshes sent by deleteReport (ReportContext.jsx:133) in flight.
DeleteRefreshes(s) == Cardinality({i \in 1..Len(s) : s[i].origin = "delete"})

C9_RejectedDeleteSetsError ==
    ev.type = "deleteFail" => (error # NoError /\ loading = FALSE)

\* C10: the stored list changes only in the step that applies a successful
\* list response, to exactly that response's reports; the steps of
\* deleteReport, compareDocuments and getReport leave it as it is.
C10_ListOnlyFromResponses ==
    [][/\ reports' # reports
          => /\ ev'.type = "fetchOk"
             /\ \E i \in 1..Len(calls) : reports' = ResponseTo(calls[i]).reports
       /\ ev'.type \in {"deleteOk", "deleteFail", "compareOk", "compareFail",
                        "getOk", "getFail"}
          => reports' = reports]_vars

\* The backend has acknowledged a delete and the stored list still shows
\* the deleted report.
C10_Witness ==
    /\ ev.type = "deleteOk"
    /\ \E k \in 1..Len(reports) : reports[k] \notin db

\* The requests in flight.
InFlight(cs, os) == Len(cs) + BagCardinality(os)

\* C11: each operation that set loading leaves it false in the step in which
\* it finishes, whether its request succeeded or failed (a list fetch, a
\* getReport, a getDocumentReports when the request settles; a
\* compareDocuments when its POST failed or, the POST accepted, when the
\* refresh it awaits settles); and in every state with no request in
\* flight loading is false.
C11_LoadingIsReset ==
    [][/\ ev'.type \in {"fetchOk", "fetchFail", "getOk", "getFail",
                        "docsOk", "docsFail", "compareFail"}
          => loading' = FALSE
       /\ InFlight(calls', others') = 0 => loading' = FALSE]_vars

\* A getDocumentReports request has failed, nothing is in flight and the
\* spinner is off.
C11_Witness ==
    /\ ev.type = "docsFail"
    /\ InFlight(calls, others) = 0
    /\ loading = FALSE
    /\ toast.type = "error"

\* C12: while a list fetch started with the loading indication is in
\* flight, loading is true.
C12_LoadingWhileListFetchInFlight ==
    (\E i \in 1..Len(calls) : calls[i].showLoading) => loading = TRUE

\* A request of the given kind was sent in this step.
Started(kind) ==
    \E c \in BagToSet(others') :
        c.kind = kind /\ CopiesIn(c, others') > CopiesIn(c, others)

\* C13: a step that starts a list fetch, a getReport request or a DELETE
\* leaves error null; and while the list fetch started last is in flight,
\* the failure of an older one does not set error.
C13_ErrorPerAttempt ==
    [][/\ (Len(calls') > Len(calls) \/ Started("get") \/ Started("delete"))
          => error' = NoError
       /\ \A i \in 1..Len(calls) :
             (ev'.type = "fetchFail" /\ calls' = Remove(calls, i) /\ i < Len(calls))
             => error' = NoError]_vars

\* C14: while no token is held, no step of a report operation sends a
\* request or changes reports, PageState, loading or error, and what an
\* operation returns is its empty or default value.
C14_NoTokenNoRequest ==
    [][(~token /\ ~token')
       => /\ InFlight(calls', others') = 0
          /\ <<reports', pagination', loading', error'>> = <<reports, pagination, loading, error>>
          /\ ev'.ret \in {"none", "null", "false", "empty", "undefined"}]_vars

\* C17: no operation of the store rejects: whatever an operation's promise
\* settles with, it is not a thrown error.
C17_NoOperationThrows == ev.ret # "throw"

\* C15: the step of a validation failure (handleCompare with an empty slot
\* or the same document twice, getReport with an empty or 'undefined' id)
\* sends no request, leaves reports, PageState, loading and error as they
\* were, and raises an error toast.
C15_ValidationFailureIsLocal ==
    [][ev'.type = "invalid"
       => /\ calls' = calls /\ others' = others
          /\ <<reports', pagination', loading', error'>> = <<reports, pagination, loading, error>>
          /\ toast'.type = "error"]_vars

\* C16: when a call of uploadMultipleDocuments in which an upload failed
\* ends, every file of the batch has been attempted, the call returns the
\* uploads that succeeded, and the toast it leaves is the success message
\* with their count.
C16_BatchNotAborted ==
    [][(up.pc # "done" /\ up'.pc = "done" /\ up'.failed > 0)
       => /\ up'.i = Len(up'.files)
          /\ up'.ret = up'.uploadedFiles
          /\ toast' = showToast(CountMessage(Len(up'.uploadedFiles)), "success")]_vars

\* C18: for totalPages >= 2 and 1 <= currentPage <= totalPages the page
\* buttons are exactly 1, totalPages and currentPage - 1, currentPage,
\* currentPage + 1 as far as they lie in 1..totalPages, in strictly
\* ascending order, and an ellipsis is shown before a button exactly when
\* it differs from the button before it by more than 1; page 5 of 20 gives
\* 1 ... 4 5 6 ... 20 and page 1 of 3 gives 1 2 3 without ellipsis.
C18_PageButtons ==
    LET cur == pagination.page
        total == pagination.pages
        pn == getPageNumbers(cur, total)
        p20 == getPageNumbers(5, 20)
        p3 == getPageNumbers(1, 3)
    IN /\ (total >= 2 /\ cur \in 1..total) =>
            /\ {pn[k] : k \in 1..Len(pn)}
                   = ({1, total} \cup {cur - 1, cur, cur + 1}) \cap (1..total)
            /\ ~showEllipsisBefore(pn, 1)
            /\ \A k \in 2..Len(pn) :
                   /\ pn[k - 1] < pn[k]
                   /\ showEllipsisBefore(pn, k) <=> (pn[k] - pn[k - 1] > 1)
       /\ p20 = <<1, 4, 5, 6, 20>>
       /\ {k \in 1..Len(p20) : showEllipsisBefore(p20, k)} = {2, 5}
       /\ p3 = <<1, 2, 3>>
       /\ {k \in 1..Len(p3) : showEllipsisBefore(p3, k)} = {}

\* The user has clicked to page 5 of 10 and its list has arrived: the
\* buttons are 1 ... 4 5 6 ... 10.
C18_Witness ==
    /\ ev.type = "fetchOk"
    /\ pagination.page = 5 /\ pagination.pages = 10
    /\ PageButtons = <<1, 4, 5, 6, 10>>
    /\ {k \in 1..Len(PageButtons) : showEllipsisBefore(PageButtons, k)} = {2, 5}

C20_ControlsStayInRange ==
    LET cur == pagination.page
        total == pagination.pages
    IN PageButtons # <<>> =>
         /\ cur = 1 => previousDisabled(cur)
         /\ cur = total => nextDisabled(cur, total)
         /\ previousTarget(cur) \in 1..total
         /\ nextTarget(cur, total) \in 1..total
         /\ \A k \in 1..Len(PageButtons) : PageButtons[k] \in 1..total
         /\ previousTarget(cur) <= cur
         /\ nextTarget(cur, total) >= cur

\* The user has clicked through to the last of at least three pages: Next
\* is disabled there and would ask for the same page.
C20_Witness ==
    /\ ev.type = "fetchOk"
    /\ PageButtons # <<>>
    /\ pagination.pages >= 3
    /\ pagination.page = pagination.pages
    /\ nextDisabled(pagination.page, pagination.pages)
    /\ nextTarget(pagination.page, pagination.pages) = pagination.pages
    /\ ~previousDisabled(pagination.page)

\* C21: the list the page shows holds only stored reports that pass every
\* active filter (the type filter and the method filter when not 'all',
\* and, for a non-empty search term, the term occurring in the report's
\* name or in the name of one of its documents, whatever the case of the
\* letters), holds every stored report that passes them, once, and is
\* empty when the stored list is.
C21_DerivedListIsTheFilter ==
    LET derived == DerivedList
        Has(n) == /\ n # NoName
                  /\ \E k \in 0..(Len(n) - Len(searchTerm)) :
                        \A j \in 1..Len(searchTerm) :
                            toLowerCase(<<n[k + j]>>) = toLowerCase(<<searchTerm[j]>>)
        Passes(id) ==
            LET r == ReportOf(id)
            IN /\ filterType # "all" => r.report_type = filterType
               /\ filterMethod # "all" => r.detection_method = filterMethod
               /\ searchTerm # NoTerm => Has(r.name) \/ Has(r.document1) \/ Has(r.document2)
    IN /\ \A k \in 1..Len(derived) :
              /\ \E j \in 1..Len(reports) : reports[j] = derived[k]
              /\ Passes(derived[k])
       /\ \A j \in 1..Len(reports) :
              Passes(reports[j]) => \E k \in 1..Len(derived) : derived[k] = reports[j]
       /\ Len(derived) = Cardinality({derived[k] : k \in 1..Len(derived)})
       /\ reports = <<>> => derived = <<>>

\* The user has typed "AB" with the type filter on 'comparison': report 1,
\* whose name is "Ab", is shown, other stored reports are not.
C21_Witness ==
    /\ ev.type = "setSearchTerm"
    /\ searchTerm = <<"A", "B">>
    /\ filterType = "comparison"
    /\ \E k \in 1..Len(DerivedList) : DerivedList[k] = 1
    /\ Len(DerivedList) < Len(reports)

\* C22: a step that sets the type filter, the method filter, the search
\* term or the sort, or clears them, leaves the stored list and its order
\* and PageState as they are, sends no request and leaves no effect to run.
C22_FilterChangeIsLocal ==
    [][(\/ filterVars' # filterVars
        \/ ev'.type \in {"setFilterType", "setFilterMethod", "setSort",
                         "setSearchTerm", "clearAll", "clearFilters"})
       => /\ reports' = reports
          /\ pagination' = pagination
          /\ calls' = calls
          /\ others' = others
          /\ docCalls' = docCalls
          /\ ~provDue' /\ ~pageDue']_vars

\* The user has chosen the sort by similarity: the page shows the stored
\* reports in another order than the store holds them, which is still the
\* backend's.
C22_Witness ==
    /\ ev.type = "setSort"
    /\ sortBy = "similarity"
    /\ Len(reports) > 1
    /\ Len(DerivedList) = Len(reports)
    /\ DerivedList # reports
    /\ \A k \in 2..Len(reports) : reports[k - 1] < reports[k]

\* C23: when the store holds what a list fetch of a page brought and the
\* backend has not changed since, a second fetch of that page, alone in
\* flight, leaves the same stored list and the same PageState when its
\* response is applied, and no request or effect follows it.
C23_FetchTwiceIsFetchOnce ==
    [][\A i \in 1..Len(calls) :
          (/\ ev'.type = "fetchOk"
           /\ calls' = Remove(calls, i)
           /\ Len(calls) = 1 /\ others = EmptyBag
           /\ reports = ResponseTo(calls[i]).reports
           /\ pagination = PageStateOf(ResponseTo(calls[i])))
          => /\ reports' = reports
             /\ pagination' = pagination
             /\ calls' = <<>> /\ others' = EmptyBag
             /\ ~provDue' /\ ~pageDue']_vars

\* The provider's fetch of page 1 and the fetch of the reports page, which
\* was opened later, have both been answered by a backend with reports.
C23_Witness ==
    /\ ev.type = "fetchOk"
    /\ mounted
    /\ calls = <<>> /\ others = EmptyBag
    /\ ~provDue /\ ~pageDue
    /\ reports # <<>>
    /\ reports = ListResponse(db, pagination.page, pagination.perPage).reports
    /\ pagination = PageStateOf(ListResponse(db, pagination.page, pagination.perPage))
    /\ toast = NoToast

\* C24: after a step of Clear All or of Clear Filters FilterState has its
\* initial value: type 'all', method 'all', no search term, sort by date,
\* descending.
C24_ClearRestoresInitial ==
    [][ev'.type \in {"clearAll", "clearFilters"}
       => /\ filterType' = "all"
          /\ filterMethod' = "all"
          /\ searchTerm' = NoTerm
          /\ sortBy' = "date"
          /\ sortOrder' = "desc"]_vars

\* C25: on the general check page at least one source is selected, whatever
\* sources the user toggled.
C25_SelectedSourcesNeverEmpty == Len(selectedSources) >= 1

\* The user has clicked the pill of the only source left selected: the
\* click was ignored.
C25_Witness ==
    /\ view = "check"
    /\ ev.type = "toggleIgnored"
    /\ Len(selectedSources) = 1

\* C26: if from some time on the user does nothing (no page change, no
\* opening or leaving of the reports page, no closing of a toast) and no
\* request fails, then from some time on no list request is in flight.
C26_StoreSettles ==
    ((<>[][~UserStep]_vars) /\ <>[](ev.type # "fetchFail")) => <>[](calls = <<>>)

C28_RejectedDeleteShowsError ==
    [][ev'.type = "confirmDeleteFail"
       => toast' = showToast("Failed to delete report", "error")]_vars

\* C29: on the compare page, once the document list has been fetched and
\* no document request is in flight, the "loading documents" state ends at
\* some time, whatever the list holds.
C29_DocsLoadingEnds ==
    (view = "compare" /\ connectedToDrive /\ docCalls = <<>> /\ up.pc \in {"idle", "done"})
        ~> ~docsLoading

\* C30: whenever the reports page is shown, PageState.pages > 1 and the
\* list is not loading, the page controls are rendered, whatever
\* FilterState is.
C30_ControlsWheneverSeveralPages ==
    (mounted /\ ~loading /\ pagination.pages > 1) => PageButtons # <<>>

====
